---- MODULE Spec2Model ----
(***************************************************************************)
(* Model of the step-execution engine of st_workflow                       *)
(* (src/st_workflow/__init__.py): class Workflow with its three scoped     *)
(* step lists, the shared context, the step executor (_run_step), the      *)
(* scope runner (run_steps) and the top-level run.                         *)
(*                                                                         *)
(* The caller first registers steps (pc = "build"), then calls run once.   *)
(* run is a coroutine; its position is (pc, scope, idx, inErr, i):         *)
(*   pc = "run_steps" : at the head of the for loop of run_steps           *)
(*   pc = "call"      : inside _run_step, about to invoke the function     *)
(*   pc = "cond"      : inside cond_step, about to invoke a branch step    *)
(*   pc = "dispatch"  : inside parallel_step, in its loop over the callables *)
(*   pc = "gather"    : inside parallel_step, awaiting asyncio.gather      *)
(*   pc = "done"      : run has returned or raised                         *)
(* Every invocation of a caller-supplied function is one transition.       *)
(***************************************************************************)
EXTENDS Integers, Sequences, FiniteSets, TLC

\* ------------------------------------------------------------------ bounds
MaxSteps   == 3    \* Step objects registered before run is called
MaxRetries == 1    \* largest retries value given at registration

\* ------------------------------------------------------------------ Scope
NORMAL == "normal"
ERROR  == "error"
EXIT   == "exit"
Scope  == {NORMAL, ERROR, EXIT}

\* ------------------------------------------------- caller-supplied callables
\* The step functions of the test-suite.  A value is a list of atoms.
\* step_with_param_err is step_with_param with the body of step_raise_err:
\* a callable with a name-bound parameter that raises.
FuncNames == {"step_a", "step_b", "step_with_multi_param",
              "step_with_retries", "step_cancel", "step_return_true",
              "step_return_false", "step_with_timeout", "step_set_ctx",
              "step_with_param", "step_with_param_err"}

\* the closures add_cond_step and add_parallel_steps register as step.func
Closures == {"cond_step", "parallel_step"}

\* the keys of the context the model follows: the names of the steps
\* and "step", the key step_set_ctx writes and step_with_param is bound to
Names == FuncNames \cup {"cond_step", "parallel_steps", "step"}

\* inspect.signature(func).parameters
Params(f) ==
  CASE f = "step_with_multi_param" -> <<"step_a", "step_b">>
    [] f = "step_with_retries"     -> <<"ctx">>
    [] f = "step_cancel"           -> <<"ctx">>
    [] f = "step_set_ctx"          -> <<"ctx">>
    [] f = "step_with_param"       -> <<"step">>
    [] f = "step_with_param_err"   -> <<"step">>
    [] OTHER                       -> <<>>

\* Can an invocation return (TRUE) / raise (FALSE)?  step_with_retries
\* raises on some invocations and returns on others.
Outcomes(f) ==
  CASE f = "step_with_retries"   -> {TRUE, FALSE}
    [] f = "step_with_param_err" -> {FALSE}
    [] OTHER                     -> {TRUE}

Absent == <<"<absent>">>     \* key not in the dict
None   == <<"None">>
CtxRef == <<"<ctx>">>        \* the live context object, passed by reference

\* the value a function returns when it returns
Result(f, a) ==
  CASE f = "step_a"                -> <<"hello_world b">>
    [] f = "step_b"                -> <<"hello_world">>
    [] f = "step_with_multi_param" -> a[1] \o a[2]
    [] f = "step_with_retries"     -> <<"3">>
    [] f = "step_return_true"      -> <<"True">>
    [] f = "step_return_false"     -> <<"False">>
    [] f = "step_with_timeout"     -> <<"hello_world">>
    [] f = "step_with_param"       -> a[1]
    [] OTHER                       -> None

\* asyncio.iscoroutinefunction(func)
iscoroutinefunction(f) == f \in {"step_with_timeout"} \cup Closures

\* seconds an asynchronous function sleeps before it returns
Duration(f) == IF f = "step_with_timeout" THEN 3 ELSE 0

\* Python truth value of a context value (an absent key reads as None)
Truthy(v) == v \notin {Absent, None, <<"False">>, <<>>}

\* what the function body does to the live context it was given
Effect(f, c) ==
  CASE f = "step_cancel"  -> [c EXCEPT !.cancel = TRUE]
    [] f = "step_set_ctx" -> [c EXCEPT !.vals["step"] = <<"hello_world">>]
    [] OTHER              -> c

\* ------------------------------------------------------------- exceptions
NoExc        == [kind |-> "none", n |-> 0]
ValueError(k) == [kind |-> "ValueError", n |-> k]
KeyError     == [kind |-> "KeyError", n |-> 0]
TimeoutError(k) == [kind |-> "TimeoutError", n |-> k]

\* ------------------------------------------------------------------ Step
NoStep == <<>>               \* Optional[Step] is a list of length <= 1
NoTimeout == <<>>            \* Optional[int] likewise
NoEnv == [prev |-> "", on_true |-> <<>>, on_false |-> <<>>, steps |-> <<>>]
\* env: the free variables of func when func is a closure
Step(func, name, retries, cont_on_err, err_step) ==
  [func |-> func, name |-> name, timeout |-> NoTimeout, retries |-> retries,
   cont_on_err |-> cont_on_err, err_step |-> err_step, env |-> NoEnv]

VARIABLES
  steps,     \* self.steps: scope -> list of Step
  ctx,       \* self.ctx
  pc,        \* position of the caller / of the run coroutine
  scope,     \* run: the scope run_steps is traversing
  idx,       \* run_steps: index of the current step in steps[scope]
  inErr,     \* _run_step: executing step.err_step (the recursive call)
  i,         \* _run_step: loop variable of the attempt loop
  args,      \* _run_step: the bound argument list
  pending,   \* run: exception waiting for the finally block to finish
  outcome,   \* "running", "returned" or "raised"
  raised,    \* the exception run raised to its caller
  ended,     \* run: how each call of run_steps(scope) ended, and where
  called,    \* history: the caller has called cancel()
  log,       \* history: every invocation of a caller-supplied function
  next_steps,\* cond_step: the selected branch
  bi,        \* cond_step: index of the current branch step in next_steps
  tasks,     \* every task parallel_step has dispatched, in dispatch order
  first      \* parallel_step: index in tasks of the first task it awaits

vars == <<steps, ctx, pc, scope, idx, inErr, i, args, pending, outcome,
          raised, ended, called, log, next_steps, bi, tasks, first>>

\* the locals of the closures and the tasks
closure == <<next_steps, bi, tasks, first>>

\* ----------------------------------------------------------- __init__
NoErr == [step |-> "", error |-> NoExc]
NotEnded == [status |-> "no", exc |-> NoExc, idx |-> 0]

Init ==
  /\ steps = [s \in Scope |-> <<>>]
  /\ ctx = [cancel |-> FALSE, error |-> FALSE,
            vals |-> [k \in Names |-> Absent],
            errs |-> [s \in Scope |-> NoErr]]
  /\ pc = "build"
  /\ scope = NORMAL
  /\ idx = 1
  /\ inErr = FALSE
  /\ i = 0
  /\ args = <<>>
  /\ pending = NoExc
  /\ outcome = "running"
  /\ raised = NoExc
  /\ ended = [s \in Scope |-> NotEnded]
  /\ called = FALSE
  /\ log = <<>>
  /\ next_steps = <<>>
  /\ bi = 0
  /\ tasks = <<>>
  /\ first = 0

\* ----------------------------------------------------------- registration
\* number of Step objects created so far (fallbacks included)
NumSteps ==
  Len(steps[NORMAL]) + Len(steps[ERROR]) + Len(steps[EXIT])
  + Cardinality({k \in 1..Len(steps[NORMAL]) :
                   steps[NORMAL][k].err_step # NoStep})

\* self.steps[scope.value].append(Step(...))
AppendStep(sc, st) ==
  /\ pc = "build"
  /\ NumSteps < MaxSteps
  /\ steps' = [steps EXCEPT ![sc] = Append(@, st)]
  /\ UNCHANGED <<ctx, pc, scope, idx, inErr, i, args, pending, outcome,
                 raised, ended, called, log, closure>>

\* name is left to its default, func.__name__
add_step(func, sc, timeout, retries, cont_on_err) ==
  AppendStep(sc, [Step(func, func, retries, cont_on_err, NoStep)
                    EXCEPT !.timeout = timeout])

\* index of the first normal step whose name is nm, 0 if none
FirstNamed(nm) ==
  LET S == {k \in 1..Len(steps[NORMAL]) : steps[NORMAL][k].name = nm}
  IN IF S = {} THEN 0 ELSE CHOOSE k \in S : \A j \in S : k <= j

add_error_step(func, retries, step_func) ==
  /\ pc = "build"
  /\ IF step_func # ""
     THEN /\ FirstNamed(step_func) # 0
          /\ NumSteps < MaxSteps
          /\ steps' = [steps EXCEPT ![NORMAL][FirstNamed(step_func)].err_step =
                         <<Step(func, func, retries, FALSE, NoStep)>>]
          /\ UNCHANGED <<ctx, pc, scope, idx, inErr, i, args, pending,
                         outcome, raised, ended, called, log, closure>>
     ELSE add_step(func, ERROR, NoTimeout, retries, FALSE)

add_exit_step(func, retries) == add_step(func, EXIT, NoTimeout, retries, FALSE)

\* on_true_steps, on_false_steps: lists of callables (a single callable is
\* the list of length one cond_step makes of it); prev_step is the last
\* step of the scope at registration, which must exist
add_cond_step(on_true_steps, on_false_steps, sc) ==
  /\ Len(steps[sc]) > 0
  /\ AppendStep(sc, [Step("cond_step", "cond_step", 0, FALSE, NoStep)
                       EXCEPT !.env = [NoEnv EXCEPT
                         !.prev = steps[sc][Len(steps[sc])].name,
                         !.on_true = on_true_steps,
                         !.on_false = on_false_steps]])

Max(S) == CHOOSE k \in S : \A j \in S : j <= k
Min(S) == CHOOSE k \in S : \A j \in S : k <= j

\* ------------------------------------------------------- _get_step_args
InSeq(x, sq) == \E k \in 1..Len(sq) : sq[k] = x

\* variant: the values are passed in reverse declaration order
get_step_args_reversed(func, c) ==
  LET p == Params(func) IN
  IF InSeq("ctx", p)
  THEN [ok |-> TRUE, args |-> <<CtxRef>>]
  ELSE IF \E k \in 1..Len(p) : c.vals[p[k]] = Absent
       THEN [ok |-> FALSE, args |-> <<>>]
       ELSE [ok |-> TRUE,
             args |-> [k \in 1..Len(p) |-> c.vals[p[Len(p) + 1 - k]]]]

\* [ok |-> the lookup succeeded, args |-> the positional argument list]
get_step_args(func, c) ==
  LET p == Params(func) IN
  IF InSeq("ctx", p)
  THEN [ok |-> TRUE, args |-> <<CtxRef>>]
  ELSE IF \E k \in 1..Len(p) : c.vals[p[k]] = Absent
       THEN [ok |-> FALSE, args |-> <<>>]
       ELSE [ok |-> TRUE, args |-> [k \in 1..Len(p) |-> c.vals[p[k]]]]

\* ------------------------------------------------------------------ run
\* A control state of the run coroutine together with the context.
\* left: run_steps(scope) is over; exc: the exception it ended with.
Goto(c, sc, ix, pend) ==
  [ctx |-> c, pc |-> "run_steps", scope |-> sc, idx |-> ix,
   pending |-> pend, outcome |-> "running", raised |-> NoExc,
   left |-> FALSE, exc |-> NoExc]

Enter(c, sc, pend, exc) ==
  [ctx |-> c, pc |-> "run_steps", scope |-> sc, idx |-> 1,
   pending |-> pend, outcome |-> "running", raised |-> NoExc,
   left |-> TRUE, exc |-> exc]

Finish(c, e, exc) ==
  [ctx |-> c, pc |-> "done", scope |-> EXIT, idx |-> 1, pending |-> NoExc,
   outcome |-> IF e = NoExc THEN "returned" ELSE "raised", raised |-> e,
   left |-> TRUE, exc |-> exc]

\* variant: the except clause re-raises whenever no error step is registered
run_after_reraise(c, sc, exc, pend) ==
  IF sc = NORMAL
  THEN IF exc = NoExc
       THEN Enter(c, EXIT, NoExc, exc)
       ELSE LET c2 == [c EXCEPT !.error = TRUE] IN
            IF Len(steps[ERROR]) = 0
            THEN Enter(c2, EXIT, exc, exc)
            ELSE Enter(c2, ERROR, NoExc, exc)
  ELSE IF sc = ERROR
  THEN Enter(c, EXIT, exc, exc)
  ELSE Finish(c, IF exc # NoExc THEN exc ELSE pend, exc)

\* variant: the finally clause swallows the exception of the except clause
run_after_swallow(c, sc, exc, pend) ==
  IF sc = NORMAL
  THEN IF exc = NoExc
       THEN Enter(c, EXIT, NoExc, exc)
       ELSE LET c2 == [c EXCEPT !.error = TRUE] IN
            IF Len(steps[ERROR]) = 0 /\ Len(steps[EXIT]) = 0
            THEN Enter(c2, EXIT, NoExc, exc)
            ELSE Enter(c2, ERROR, NoExc, exc)
  ELSE IF sc = ERROR
  THEN Enter(c, EXIT, exc, exc)
  ELSE Finish(c, IF exc # NoExc THEN exc ELSE pend, exc)

\* variant: a failure raised in the finally clause does not replace the
\* failure already in flight
run_after_pending_wins(c, sc, exc, pend) ==
  IF sc = NORMAL
  THEN IF exc = NoExc
       THEN Enter(c, EXIT, NoExc, exc)
       ELSE LET c2 == [c EXCEPT !.error = TRUE] IN
            IF Len(steps[ERROR]) = 0 /\ Len(steps[EXIT]) = 0
            THEN Enter(c2, EXIT, exc, exc)
            ELSE Enter(c2, ERROR, NoExc, exc)
  ELSE IF sc = ERROR
  THEN Enter(c, EXIT, exc, exc)
  ELSE Finish(c, IF pend # NoExc THEN pend ELSE exc, exc)

\* variant: the error scope is entered whether or not the normal scope raised
run_after_always_error(c, sc, exc, pend) ==
  IF sc = NORMAL
  THEN IF exc = NoExc
       THEN Enter(c, ERROR, NoExc, exc)
       ELSE LET c2 == [c EXCEPT !.error = TRUE] IN
            IF Len(steps[ERROR]) = 0 /\ Len(steps[EXIT]) = 0
            THEN Enter(c2, EXIT, exc, exc)
            ELSE Enter(c2, ERROR, NoExc, exc)
  ELSE IF sc = ERROR
  THEN Enter(c, EXIT, exc, exc)
  ELSE Finish(c, IF exc # NoExc THEN exc ELSE pend, exc)

\* run, after run_steps(sc) has returned (exc = NoExc) or raised exc:
\* the except clause of the normal scope, the finally clause, the end.
run_after(c, sc, exc, pend) ==
  IF sc = NORMAL
  THEN IF exc = NoExc
       THEN Enter(c, EXIT, NoExc, exc)
       ELSE LET c2 == [c EXCEPT !.error = TRUE] IN
            IF Len(steps[ERROR]) = 0 /\ Len(steps[EXIT]) = 0
            THEN Enter(c2, EXIT, exc, exc)
            ELSE Enter(c2, ERROR, NoExc, exc)
  ELSE IF sc = ERROR
  THEN Enter(c, EXIT, exc, exc)
  ELSE Finish(c, IF exc # NoExc THEN exc ELSE pend, exc)

\* variant: the error record is not written
run_steps_except_norecord(c, sc, ix, step, exc, pend) ==
  IF ~step.cont_on_err
  THEN run_after(c, sc, exc, pend)
  ELSE Goto(c, sc, ix + 1, pend)

\* variant: the failing step's entry is removed from the context
run_steps_except_pop(c, sc, ix, step, exc, pend) ==
  LET c2 == [c EXCEPT !.errs[sc] = [step |-> step.name, error |-> exc],
                      !.vals[step.name] = Absent] IN
  IF ~step.cont_on_err
  THEN run_after(c2, sc, exc, pend)
  ELSE Goto(c2, sc, ix + 1, pend)

\* variant: the failure is re-raised whatever cont_on_err says
run_steps_except_raise(c, sc, ix, step, exc, pend) ==
  LET c2 == [c EXCEPT !.errs[sc] = [step |-> step.name, error |-> exc]] IN
  run_after(c2, sc, exc, pend)

\* run_steps, the except clause: _run_step raised exc for step
run_steps_except(c, sc, ix, step, exc, pend) ==
  LET c2 == [c EXCEPT !.errs[sc] = [step |-> step.name, error |-> exc]] IN
  IF ~step.cont_on_err
  THEN run_after(c2, sc, exc, pend)
  ELSE Goto(c2, sc, ix + 1, pend)

\* variant: ctx.setdefault(step_name, result)
run_steps_result_setdefault(c, sc, ix, step, name, result, pend) ==
  LET c2 == IF c.vals[name] = Absent
            THEN [c EXCEPT !.vals[name] = result] ELSE c IN
  IF /\ step.err_step # NoStep
     /\ name = step.err_step[1].name
     /\ ~step.cont_on_err
  THEN run_after(c2, sc, NoExc, pend)
  ELSE Goto(c2, sc, ix + 1, pend)

\* variant: the fallback halts the scope whatever cont_on_err says
run_steps_result_nocont(c, sc, ix, step, name, result, pend) ==
  LET c2 == [c EXCEPT !.vals[name] = result] IN
  IF /\ step.err_step # NoStep
     /\ name = step.err_step[1].name
  THEN run_after(c2, sc, NoExc, pend)
  ELSE Goto(c2, sc, ix + 1, pend)

\* run_steps, after _run_step returned (name, result) for step
run_steps_result(c, sc, ix, step, name, result, pend) ==
  LET c2 == [c EXCEPT !.vals[name] = result] IN
  IF /\ step.err_step # NoStep
     /\ name = step.err_step[1].name
     /\ ~step.cont_on_err
  THEN run_after(c2, sc, NoExc, pend)
  ELSE Goto(c2, sc, ix + 1, pend)

\* the variables a control state determines
Become(m) ==
  /\ ctx' = m.ctx
  /\ pc' = m.pc
  /\ scope' = m.scope
  /\ idx' = m.idx
  /\ pending' = m.pending
  /\ outcome' = m.outcome
  /\ raised' = m.raised
  /\ ended' = IF m.left
              THEN [ended EXCEPT ![scope] =
                      [status |-> IF m.exc = NoExc THEN "returned"
                                  ELSE "raised",
                       exc |-> m.exc, idx |-> idx]]
              ELSE ended
  /\ inErr' = FALSE
  /\ i' = 0
  /\ args' = <<>>

\* run(**kwargs): ctx.update(kwargs), then enter the normal scope
Kwargs == { [k \in {} |-> None],
            [k \in {"step_a", "step_b"} |->
               IF k = "step_a" THEN <<"hello">> ELSE <<"world">>] }

run(kwargs) ==
  /\ pc = "build"
  /\ ctx' = [ctx EXCEPT !.vals = [k \in Names |->
                IF k \in DOMAIN kwargs THEN kwargs[k] ELSE @[k]]]
  /\ pc' = "run_steps"
  /\ scope' = NORMAL
  /\ idx' = 1
  /\ UNCHANGED <<steps, inErr, i, args, pending, outcome, raised, ended,
                 called, log, closure>>

\* variant: the cancel flag is not looked at
run_steps_nocancel ==
  /\ pc = "run_steps"
  /\ IF idx > Len(steps[scope])
     THEN Become(run_after(ctx, scope, NoExc, pending))
     ELSE LET step == steps[scope][idx]
              b == get_step_args(step.func, ctx) IN
          IF b.ok
          THEN /\ pc' = "call"
               /\ args' = b.args
               /\ i' = 0
               /\ inErr' = FALSE
               /\ UNCHANGED <<ctx, scope, idx, pending, outcome, raised,
                              ended>>
          ELSE Become(run_steps_except(ctx, scope, idx, step, KeyError,
                                       pending))
  /\ UNCHANGED <<steps, called, log, closure>>

\* run_steps, one pass through the head of the for loop: the list is
\* exhausted, or the cancel flag breaks the loop, or _run_step is entered
\* for the next step and binds its arguments.
run_steps ==
  /\ pc = "run_steps"
  /\ IF idx > Len(steps[scope]) \/ ctx.cancel
     THEN Become(run_after(ctx, scope, NoExc, pending))
     ELSE LET step == steps[scope][idx]
              b == get_step_args(step.func, ctx) IN
          IF b.ok
          THEN /\ pc' = "call"
               /\ args' = b.args
               /\ i' = 0
               /\ inErr' = FALSE
               /\ UNCHANGED <<ctx, scope, idx, pending, outcome, raised,
                              ended>>
          ELSE Become(run_steps_except(ctx, scope, idx, step, KeyError,
                                       pending))
  /\ UNCHANGED <<steps, called, log, closure>>

\* _run_step, one attempt: invoke the function of the current step (the
\* registered step, or its err_step once the fallback was entered).
LogEntry(sc, ix, fb, cur, att, a, ok) ==
  [scope |-> sc, idx |-> ix, fb |-> fb, func |-> cur.func,
   name |-> cur.name, i |-> att, args |-> a, ok |-> ok]

\* variant: the attempt loop gives up one attempt early
run_step_attempt_early(c, sc, ix, step, cur, att, a, e, result, pend) ==
  IF e = NoExc
  THEN [m |-> run_steps_result(c, sc, ix, step, cur.name, result, pend),
        next |-> "return", args |-> <<>>]
  ELSE IF cur.err_step # NoStep
  THEN LET b == get_step_args(cur.err_step[1].func, c) IN
       IF b.ok
       THEN [m |-> Goto(c, sc, ix, pend), next |-> "fallback",
             args |-> b.args]
       ELSE [m |-> run_steps_except(c, sc, ix, step, KeyError, pend),
             next |-> "return", args |-> <<>>]
  ELSE IF att >= cur.retries - 1
  THEN [m |-> run_steps_except(c, sc, ix, step, e, pend),
        next |-> "return", args |-> <<>>]
  ELSE [m |-> Goto(c, sc, ix, pend), next |-> "retry", args |-> a]

\* variant: the fallback is entered only once the retries are exhausted
run_step_attempt_retry_first(c, sc, ix, step, cur, att, a, e, result, pend) ==
  IF e = NoExc
  THEN [m |-> run_steps_result(c, sc, ix, step, cur.name, result, pend),
        next |-> "return", args |-> <<>>]
  ELSE IF att < cur.retries
  THEN [m |-> Goto(c, sc, ix, pend), next |-> "retry", args |-> a]
  ELSE IF cur.err_step # NoStep
  THEN LET b == get_step_args(cur.err_step[1].func, c) IN
       IF b.ok
       THEN [m |-> Goto(c, sc, ix, pend), next |-> "fallback",
             args |-> b.args]
       ELSE [m |-> run_steps_except(c, sc, ix, step, KeyError, pend),
             next |-> "return", args |-> <<>>]
  ELSE [m |-> run_steps_except(c, sc, ix, step, e, pend),
        next |-> "return", args |-> <<>>]

\* variant: the attempt loop and the fallback stop when the cancel flag is
\* set
run_step_attempt_cancelled(c, sc, ix, step, cur, att, a, e, result, pend) ==
  IF e = NoExc
  THEN [m |-> run_steps_result(c, sc, ix, step, cur.name, result, pend),
        next |-> "return", args |-> <<>>]
  ELSE IF c.cancel
  THEN [m |-> run_steps_except(c, sc, ix, step, e, pend),
        next |-> "return", args |-> <<>>]
  ELSE IF cur.err_step # NoStep
  THEN LET b == get_step_args(cur.err_step[1].func, c) IN
       IF b.ok
       THEN [m |-> Goto(c, sc, ix, pend), next |-> "fallback",
             args |-> b.args]
       ELSE [m |-> run_steps_except(c, sc, ix, step, KeyError, pend),
             next |-> "return", args |-> <<>>]
  ELSE IF att = cur.retries
  THEN [m |-> run_steps_except(c, sc, ix, step, e, pend),
        next |-> "return", args |-> <<>>]
  ELSE [m |-> Goto(c, sc, ix, pend), next |-> "retry", args |-> a]

\* variant: the attempt loop makes one attempt more than retries + 1
run_step_attempt_again(c, sc, ix, step, cur, att, a, e, result, pend) ==
  IF e = NoExc
  THEN [m |-> run_steps_result(c, sc, ix, step, cur.name, result, pend),
        next |-> "return", args |-> <<>>]
  ELSE IF cur.err_step # NoStep
  THEN LET b == get_step_args(cur.err_step[1].func, c) IN
       IF b.ok
       THEN [m |-> Goto(c, sc, ix, pend), next |-> "fallback",
             args |-> b.args]
       ELSE [m |-> run_steps_except(c, sc, ix, step, KeyError, pend),
             next |-> "return", args |-> <<>>]
  ELSE IF att = cur.retries + 1
  THEN [m |-> run_steps_except(c, sc, ix, step, e, pend),
        next |-> "return", args |-> <<>>]
  ELSE [m |-> Goto(c, sc, ix, pend), next |-> "retry", args |-> a]

\* _run_step, after an attempt of cur ended with the exception e (NoExc:
\* it returned result).
\* next: "return" (to run_steps, in control state m), "retry" (next round
\* of the attempt loop) or "fallback" (the recursive call on err_step)
run_step_attempt(c, sc, ix, step, cur, att, a, e, result, pend) ==
  IF e = NoExc
  THEN [m |-> run_steps_result(c, sc, ix, step, cur.name, result, pend),
        next |-> "return", args |-> <<>>]
  ELSE IF cur.err_step # NoStep
  THEN LET b == get_step_args(cur.err_step[1].func, c) IN
       IF b.ok
       THEN [m |-> Goto(c, sc, ix, pend), next |-> "fallback",
             args |-> b.args]
       ELSE [m |-> run_steps_except(c, sc, ix, step, KeyError, pend),
             next |-> "return", args |-> <<>>]
  ELSE IF att = cur.retries
  THEN [m |-> run_steps_except(c, sc, ix, step, e, pend),
        next |-> "return", args |-> <<>>]
  ELSE [m |-> Goto(c, sc, ix, pend), next |-> "retry", args |-> a]

\* variant: the timeout is not enforced
wait_for_never(cur) == {FALSE}

\* asyncio.wait_for(step.func(*args), timeout): can the attempt hit the
\* timeout (TRUE) / run to its end (FALSE)?  Only asynchronous functions
\* are awaited under the timeout.
wait_for(cur) ==
  IF iscoroutinefunction(cur.func) /\ cur.timeout # NoTimeout
  THEN IF cur.timeout[1] < Duration(cur.func) THEN {TRUE}
       ELSE IF cur.timeout[1] > Duration(cur.func) THEN {FALSE}
       ELSE {TRUE, FALSE}
  ELSE {FALSE}

\* the executor goes on as r says: back in run_steps, or in the next
\* attempt, or in the recursive call on the fallback
Resume(r, c) ==
  IF r.next = "return"
  THEN Become(r.m)
  ELSE /\ ctx' = c
       /\ pc' = "call"
       /\ inErr' = (inErr \/ r.next = "fallback")
       /\ i' = IF r.next = "retry" THEN i + 1 ELSE 0
       /\ args' = r.args
       /\ UNCHANGED <<scope, idx, pending, outcome, raised, ended>>

\* the step _run_step is executing
CurStep == IF inErr THEN steps[scope][idx].err_step[1] ELSE steps[scope][idx]

run_step ==
  /\ pc = "call"
  /\ CurStep.func \in FuncNames
  /\ LET step == steps[scope][idx]
         cur == CurStep IN
     \E ok \in Outcomes(cur.func), to \in wait_for(cur) :
       LET c1 == Effect(cur.func, ctx)
           n == Len(log) + 1
           e == IF to THEN TimeoutError(n)
                ELSE IF ok THEN NoExc ELSE ValueError(n)
           r == run_step_attempt(c1, scope, idx, step, cur, i, args, e,
                                 Result(cur.func, args), pending)
       IN /\ log' = Append(log, LogEntry(scope, idx, inErr, cur, i, args,
                                         e = NoExc))
          /\ Resume(r, c1)
  /\ UNCHANGED <<steps, called, closure>>

\* -------------------------------------------------------- parallel_step
\* timeout and execution_mode are left to their defaults (None, THREAD)
add_parallel_steps(name, fs, sc, retries) ==
  AppendStep(sc, [Step("parallel_step", name, retries, FALSE, NoStep)
                    EXCEPT !.env = [NoEnv EXCEPT !.steps = fs]])

\* a dispatched callable: asyncio.ensure_future / loop.run_in_executor.
\* scope, idx, att: the attempt of the parallel step that dispatched it
Task(f, a, sc, ix, att) ==
  [func |-> f, args |-> a, state |-> "running", scope |-> sc, idx |-> ix,
   att |-> att]

\* the invocation made by task t
TaskEntry(t, ok) ==
  [scope |-> tasks[t].scope, idx |-> tasks[t].idx, fb |-> FALSE,
   func |-> tasks[t].func, name |-> tasks[t].func, i |-> tasks[t].att,
   args |-> tasks[t].args, ok |-> ok, task |-> t]

\* A list of results is the list of their atoms (each result is one atom).
\* variant: the results are listed in the order the tasks completed (lg:
\* the invocations so far)
gather_results_completion(ts, fst, lg) ==
  LET S == {k \in 1..Len(lg) : /\ "task" \in DOMAIN lg[k]
                               /\ lg[k].task >= fst}
      nth(u) == CHOOSE k \in S : Cardinality({j \in S : j < k}) = u - 1
      res(u) == Result(lg[nth(u)].func, lg[nth(u)].args)
  IN [u \in 1..Cardinality(S) |-> res(u)[1]]

\* asyncio.gather(*tasks), every task done: the results, in the order of
\* the tasks
gather_results(ts, fst, lg) ==
  LET res(u) == Result(ts[fst + u - 1].func, ts[fst + u - 1].args)
  IN [u \in 1..(Len(ts) + 1 - fst) |-> res(u)[1]]

\* variant: the tasks still running are cancelled when one fails
gather_failed_cancel(ts, fst) ==
  [u \in 1..Len(ts) |->
     IF u >= fst /\ ts[u].state = "running"
     THEN [ts[u] EXCEPT !.state = "cancelled"] ELSE ts[u]]

\* asyncio.gather(*tasks), a task failed: what becomes of the tasks
gather_failed(ts, fst) == ts

\* parallel_step is over: it returned result (e = NoExc) or raised e, which
\* ends this attempt of the parallel step
ParReturn(c, e, result) ==
  /\ Resume(run_step_attempt(c, scope, idx, steps[scope][idx], CurStep, i,
                             <<>>, e, result, pending), c)
  /\ first' = 0

\* _run_step invokes the closure: parallel_step starts its loop over the
\* callables (an empty list goes straight to gather, which returns [])
parallel_step ==
  /\ pc = "call"
  /\ CurStep.func = "parallel_step"
  /\ IF CurStep.env.steps = <<>>
     THEN ParReturn(ctx, NoExc, <<>>)
     ELSE /\ pc' = "dispatch"
          /\ first' = Len(tasks) + 1
          /\ UNCHANGED <<ctx, scope, idx, inErr, i, args, pending, outcome,
                         raised, ended>>
  /\ UNCHANGED <<steps, called, log, next_steps, bi, tasks>>

\* the invocations of the awaited tasks that raised so far (lg: the
\* invocations so far)
TaskFailures(lg, fst) ==
  {k \in 1..Len(lg) : /\ "task" \in DOMAIN lg[k]
                      /\ lg[k].task >= fst
                      /\ ~lg[k].ok}

\* one turn of the loop of parallel_step: the arguments of the next
\* callable are bound from the context as it is now and the callable is
\* handed to the executor, where it runs from then on; a binding failure
\* leaves parallel_step with the earlier ones dispatched.  After the last
\* one parallel_step awaits gather, which finds the tasks as they are by
\* then: a failure that has happened is raised (the first one).
dispatch ==
  /\ pc = "dispatch"
  /\ LET fs == CurStep.env.steps
         p == Len(tasks) - first + 2
         b == get_step_args(fs[p], ctx)
         ts == Append(tasks, Task(fs[p], b.args, scope, idx, i))
         F == TaskFailures(log, first)
     IN IF ~b.ok
        THEN /\ tasks' = tasks
             /\ ParReturn(ctx, KeyError, None)
        ELSE IF p < Len(fs)
        THEN /\ tasks' = ts
             /\ UNCHANGED <<ctx, pc, scope, idx, inErr, i, args, pending,
                            outcome, raised, ended, first>>
        ELSE IF F # {}
        THEN /\ tasks' = gather_failed(ts, first)
             /\ ParReturn(ctx, ValueError(Min(F)), None)
        ELSE /\ tasks' = ts
             /\ pc' = "gather"
             /\ UNCHANGED <<ctx, scope, idx, inErr, i, args, pending,
                            outcome, raised, ended, first>>
  /\ UNCHANGED <<steps, called, log, next_steps, bi>>

\* a dispatched callable returns or raises, in its thread, whatever the
\* event loop is doing.  If gather is awaiting it, its failure is raised by
\* gather at once, and its return, when it is the last one, makes gather
\* return.
task_done ==
  \E t \in 1..Len(tasks) :
    /\ tasks[t].state = "running"
    /\ \E ok \in Outcomes(tasks[t].func) :
         LET c1 == Effect(tasks[t].func, ctx)
             n == Len(log) + 1
             lg == Append(log, TaskEntry(t, ok))
             ts == [tasks EXCEPT ![t].state = IF ok THEN "done" ELSE "failed"]
         IN /\ log' = lg
            /\ IF pc = "gather" /\ t >= first
               THEN IF ~ok
                    THEN /\ tasks' = gather_failed(ts, first)
                         /\ ParReturn(c1, ValueError(n), None)
                    ELSE IF \A u \in first..Len(ts) : ts[u].state = "done"
                    THEN /\ tasks' = ts
                         /\ ParReturn(c1, NoExc, gather_results(ts, first, lg))
                    ELSE /\ tasks' = ts
                         /\ ctx' = c1
                         /\ UNCHANGED <<pc, scope, idx, inErr, i, args,
                                        pending, outcome, raised, ended,
                                        first>>
               ELSE /\ tasks' = ts
                    /\ ctx' = c1
                    /\ UNCHANGED <<pc, scope, idx, inErr, i, args, pending,
                                   outcome, raised, ended, first>>
    /\ UNCHANGED <<steps, called, next_steps, bi>>

\* ------------------------------------------------------------ cond_step
\* variant: the branch is chosen on the presence of the previous result
cond_next_steps_present(c, env) ==
  IF c.vals[env.prev] # Absent THEN env.on_true ELSE env.on_false

\* prev_result = ctx.get(prev_step.name); the branch it selects
cond_next_steps(c, env) ==
  IF Truthy(c.vals[env.prev]) THEN env.on_true ELSE env.on_false

\* variant: only the result of the last branch step is written
cond_record_last(c, ns, b, result) ==
  IF b = Len(ns) THEN [c EXCEPT !.vals[ns[b]] = result] ELSE c

\* self.ctx[results[0]] = results[1], for branch step b of ns
cond_record(c, ns, b, result) == [c EXCEPT !.vals[ns[b]] = result]

\* an invocation made by cond_step: branch step b, a bare callable f
BranchEntry(sc, ix, b, f, a, ok) ==
  [scope |-> sc, idx |-> ix, fb |-> FALSE, func |-> f, name |-> f,
   i |-> 0, args |-> a, ok |-> ok, br |-> b]

\* cond_step is over: it returned None (e = NoExc) or raised e, which ends
\* this attempt of the conditional step
CondReturn(c, e) ==
  /\ Resume(run_step_attempt(c, scope, idx, steps[scope][idx], CurStep, i,
                             <<>>, e, None, pending), c)
  /\ next_steps' = <<>>
  /\ bi' = 0

\* cond_step, the for loop at branch step b of ns, in context c: the loop
\* is over, or _run_step is entered for the branch step and binds its
\* arguments
CondLoop(c, ns, b) ==
  IF b > Len(ns)
  THEN CondReturn(c, NoExc)
  ELSE LET bnd == get_step_args(ns[b], c) IN
       IF bnd.ok
       THEN /\ ctx' = c
            /\ pc' = "cond"
            /\ next_steps' = ns
            /\ bi' = b
            /\ args' = bnd.args
            /\ UNCHANGED <<scope, idx, inErr, i, pending, outcome, raised,
                           ended>>
       ELSE CondReturn(c, KeyError)

\* _run_step invokes the closure: cond_step reads the previous result and
\* enters the loop over the selected branch
cond_step ==
  /\ pc = "call"
  /\ CurStep.func = "cond_step"
  /\ CondLoop(ctx, cond_next_steps(ctx, CurStep.env), 1)
  /\ UNCHANGED <<steps, called, log, tasks, first>>

\* cond_step, one branch step: _run_step invokes the callable (retries 0,
\* no fallback, no timeout); its result is written under its name and the
\* loop goes on, or its failure leaves cond_step
cond_branch ==
  /\ pc = "cond"
  /\ LET f == next_steps[bi] IN
     \E ok \in Outcomes(f) :
       LET c1 == Effect(f, ctx)
           n == Len(log) + 1
       IN /\ log' = Append(log, BranchEntry(scope, idx, bi, f, args, ok))
          /\ IF ok
             THEN CondLoop(cond_record(c1, next_steps, bi, Result(f, args)),
                           next_steps, bi + 1)
             ELSE CondReturn(c1, ValueError(n))
  /\ UNCHANGED <<steps, called, tasks, first>>

\* cancel(): called by the caller, once, while run is in progress
cancel ==
  /\ pc \in {"run_steps", "call", "cond", "dispatch", "gather"}
  /\ ~called
  /\ ctx' = [ctx EXCEPT !.cancel = TRUE]
  /\ called' = TRUE
  /\ UNCHANGED <<steps, pc, scope, idx, inErr, i, args, pending, outcome,
                 raised, ended, log, closure>>

\* ------------------------------------------------------------ the system
\* The registrations the caller chooses from: <<func, retries, cont_on_err>>.
\* retries and cont_on_err are varied for the function that can raise.
NormalRegs ==
  {<<"step_a", 0, FALSE>>, <<"step_with_multi_param", 0, FALSE>>,
   <<"step_cancel", 0, FALSE>>, <<"step_with_retries", 0, FALSE>>,
   <<"step_with_retries", 0, TRUE>>, <<"step_with_retries", MaxRetries, FALSE>>}
\* error steps, fallbacks and exit steps: <<func, retries>>
OtherRegs ==
  {<<"step_b", 0>>, <<"step_cancel", 0>>, <<"step_with_retries", MaxRetries>>}
StepFuncs == {"", "step_with_retries"}

Next ==
  \/ \E g \in NormalRegs : add_step(g[1], NORMAL, NoTimeout, g[2], g[3])
  \/ \E g \in OtherRegs, sf \in StepFuncs : add_error_step(g[1], g[2], sf)
  \/ \E g \in OtherRegs : add_exit_step(g[1], g[2])
  \/ \E kw \in Kwargs : run(kw)
  \/ run_steps
  \/ run_step
  \/ cancel

Spec == Init /\ [][Next]_vars

\* ---------------------------------------- the system, run to completion
\* <<func, timeout, retries, cont_on_err>>: a step that returns, one that
\* can raise on every attempt, one that times out on every attempt
FairRegs ==
  {<<"step_a", NoTimeout, 0, FALSE>>,
   <<"step_with_retries", NoTimeout, MaxRetries, FALSE>>,
   <<"step_with_retries", NoTimeout, 0, TRUE>>,
   <<"step_with_timeout", <<1>>, MaxRetries, FALSE>>}

NextFair ==
  \/ \E g \in FairRegs : add_step(g[1], NORMAL, g[2], g[3], g[4])
  \/ \E sf \in StepFuncs : add_error_step("step_with_retries", MaxRetries, sf)
  \/ add_exit_step("step_b", 0)
  \/ run([k \in {} |-> None])
  \/ run_steps
  \/ run_step
  \/ cancel

\* asyncio.run drives the run coroutine: whenever the coroutine can take
\* its next step (the scope runner at a step boundary, an invocation that
\* returns, raises or times out) it eventually does
SpecFair ==
  Init /\ [][NextFair]_vars /\ WF_vars(run_steps) /\ WF_vars(run_step)

\* ----------------------------------------------- the system, with timeouts
\* <<func, timeout, retries>>: an asynchronous and a synchronous function,
\* without timeout, with one shorter and with one longer than the
\* asynchronous function takes
TimeoutRegs ==
  {"step_with_timeout", "step_a"} \X {NoTimeout, <<1>>, <<5>>}
    \X {0, MaxRetries}

NextTimeout ==
  \/ \E g \in TimeoutRegs : add_step(g[1], NORMAL, g[2], g[3], FALSE)
  \/ add_error_step("step_b", 0, "step_with_timeout")
  \/ run([k \in {} |-> None])
  \/ run_steps
  \/ run_step

SpecTimeout == Init /\ [][NextTimeout]_vars

\* ------------------------------------- the system, with conditional steps
\* the steps registered before a conditional step: truthy and falsy
\* results, and a step whose failure leaves no entry (cont_on_err)
CondRegs ==
  {<<"step_return_true", 0, FALSE>>, <<"step_return_false", 0, FALSE>>,
   <<"step_with_retries", 0, TRUE>>}
\* <<on_true_steps, on_false_steps>>
CondBranches ==
  {<< <<"step_a", "step_with_retries", "step_b">>, <<"step_return_false">> >>,
   << <<"step_return_true">>, <<"step_b", "step_a">> >>}

NextCond ==
  \/ \E g \in CondRegs : add_step(g[1], NORMAL, NoTimeout, g[2], g[3])
  \/ add_exit_step("step_return_false", 0)
  \/ \E g \in CondBranches, sc \in {NORMAL, EXIT} :
       add_cond_step(g[1], g[2], sc)
  \/ run([k \in {} |-> None])
  \/ run_steps
  \/ run_step
  \/ cond_step
  \/ cond_branch
  \/ cancel

SpecCond == Init /\ [][NextCond]_vars

\* ---------------------------------------- the system, with parallel steps
\* <<steps, retries>>: synchronous callables, one of which can raise; the
\* caller registers at most two parallel steps, the first with or without
\* retries
ParRegs ==
  {<< <<"step_a", "step_b">>, 0 >>,
   << <<"step_b", "step_with_retries">>, 0 >>,
   << <<"step_with_retries", "step_a">>, MaxRetries >>}

NextPar ==
  \/ /\ Len(steps[NORMAL]) < 2
     /\ \E g \in ParRegs :
          /\ g[2] = 0 \/ Len(steps[NORMAL]) = 0
          /\ add_parallel_steps("parallel_steps", g[1], NORMAL, g[2])
  \/ add_exit_step("step_b", 0)
  \/ run([k \in {} |-> None])
  \/ run_steps
  \/ run_step
  \/ parallel_step
  \/ dispatch
  \/ task_done

SpecPar == Init /\ [][NextPar]_vars

\* ------------- the system, with branches and steps that use the context
\* parallel steps whose branches write the context (step_set_ctx), are
\* bound to a key of it (step_with_param) or hold it (ctx parameter)
BindPar ==
  {<<"step_with_param", "step_set_ctx", "step_with_param">>,
   <<"step_with_retries", "step_set_ctx">>,
   <<"step_with_retries", "step_with_retries">>}

\* run() and run(step="hello")
BindKwargs == { [k \in {} |-> None], [k \in {"step"} |-> <<"hello">>] }

\* The caller registers one parallel step first, steps with name-bound
\* parameters (with retries, with a fallback) and an error step that
\* fails, then calls run.
NextBind ==
  \/ /\ Len(steps[NORMAL]) = 0
     /\ \E g \in BindPar :
          add_parallel_steps("parallel_steps", g, NORMAL, 0)
  \/ \E r \in 0..MaxRetries :
       add_step("step_with_multi_param", NORMAL, NoTimeout, r, FALSE)
  \/ add_error_step("step_b", 0, "step_with_multi_param")
  \/ \E r \in 0..MaxRetries : add_error_step("step_with_param_err", r, "")
  \/ \E kw \in BindKwargs : run(kw)
  \/ run_steps
  \/ run_step
  \/ parallel_step
  \/ dispatch
  \/ task_done

SpecBind == Init /\ [][NextBind]_vars

\* ------------------------------------------ the system, with cancellation
\* <<func, retries>> of the plain steps
CancelRegs ==
  {<<"step_return_true", 0>>, <<"step_with_retries", MaxRetries>>,
   <<"step_a", 0>>}

\* The caller registers plain steps (one with retries, with or without a
\* fallback), a conditional step and a parallel step with a branch that
\* sets the cancel flag, calls run, and calls cancel() at any time.
NextCancel ==
  \/ \E g \in CancelRegs : add_step(g[1], NORMAL, NoTimeout, g[2], FALSE)
  \/ add_error_step("step_b", 0, "step_with_retries")
  \/ add_cond_step(<<"step_cancel", "step_a">>, <<"step_b">>, NORMAL)
  \/ add_parallel_steps("parallel_steps", <<"step_cancel", "step_a">>,
                        NORMAL, 0)
  \/ add_exit_step("step_b", 0)
  \/ run([k \in {} |-> None])
  \/ run_steps
  \/ run_step
  \/ cond_step
  \/ cond_branch
  \/ parallel_step
  \/ dispatch
  \/ task_done
  \/ cancel

SpecCancel == Init /\ [][NextCancel]_vars

\* ------------------------------------------------------- history helpers
Done == pc = "done"

\* the invocations made while executing step ix of scope sc
Entries(sc, ix) ==
  {k \in 1..Len(log) : log[k].scope = sc /\ log[k].idx = ix}

Executed(sc, ix) == Entries(sc, ix) # {}

\* the value invocation k returned
Returned(k) == Result(log[k].func, log[k].args)

\* the last invocation that returned under the name nm, 0 if none
LastOk(nm) ==
  LET S == {k \in 1..Len(log) : log[k].ok /\ log[k].name = nm}
  IN IF S = {} THEN 0 ELSE CHOOSE k \in S : \A j \in S : j <= k

\* exc is the failure the execution of step ix of scope sc raised
FailureOf(exc, sc, ix) ==
  \/ /\ exc.kind = "ValueError"
     /\ exc.n \in Entries(sc, ix)
     /\ ~log[exc.n].ok
     /\ \A k \in Entries(sc, ix) : k <= exc.n
  \/ exc.kind = "KeyError"

\* the normal scope raised, and the error record names the raising step
NormalRaised == ended[NORMAL].status = "raised"

NormalErrorRecorded ==
  /\ ended[NORMAL].idx \in 1..Len(steps[NORMAL])
  /\ ctx.errs[NORMAL] = [step |-> steps[NORMAL][ended[NORMAL].idx].name,
                         error |-> ended[NORMAL].exc]
  /\ FailureOf(ended[NORMAL].exc, NORMAL, ended[NORMAL].idx)

ExitStepOk == \E k \in Entries(EXIT, 1) : log[k].ok

\* ------------------------------------------------------------------ C1
\* C1 as stated: a normal step raises, no error step and one exit step that
\* succeeds are registered: run executes the exit step and then re-raises
\* the normal step's failure.
C1_Original ==
  (/\ Done
   /\ NormalRaised
   /\ Len(steps[ERROR]) = 0
   /\ ended[NORMAL].exc.kind = "ValueError"
   /\ Len(steps[EXIT]) = 1
   /\ ExitStepOk)
  => (outcome = "raised" /\ raised = ended[NORMAL].exc)

\* C1 (amended): a normal step raises, no error step is registered and one
\* exit step is registered whose scope does not raise: run returns normally,
\* the failure is not re-raised but reported as error = true and
\* normal_error; the exit step was executed and its result recorded, unless
\* the cancel flag was set, in which case the exit step was skipped.
C1_ReturnsAfterExit ==
  (/\ Done
   /\ NormalRaised
   /\ Len(steps[ERROR]) = 0
   /\ Len(steps[EXIT]) = 1
   /\ ended[EXIT].status = "returned")
  => /\ outcome = "returned"
     /\ raised = NoExc
     /\ ctx.error
     /\ NormalErrorRecorded
     /\ \/ /\ ExitStepOk
           /\ ctx.vals[steps[EXIT][1].name]
                = Returned(LastOk(steps[EXIT][1].name))
           /\ log[LastOk(steps[EXIT][1].name)].scope = EXIT
        \/ /\ ctx.cancel
           /\ ~Executed(EXIT, 1)

C1_Witness ==
  /\ Done
  /\ NormalRaised
  /\ Len(steps[ERROR]) = 0
  /\ Len(steps[EXIT]) = 1
  /\ ExitStepOk
  /\ outcome = "returned"
  /\ ctx.vals["step_b"] = <<"hello_world">>

\* ------------------------------------------------------------------ C2
\* C2: the normal scope raises, an error or exit step is registered and
\* neither the error nor the exit scope raises: run returns normally with
\* error = true and normal_error = {step: failing step, error: failure}.
C2_RecoveredReturn ==
  (/\ Done
   /\ NormalRaised
   /\ Len(steps[ERROR]) + Len(steps[EXIT]) > 0
   /\ ended[ERROR].status # "raised"
   /\ ended[EXIT].status # "raised")
  => /\ outcome = "returned"
     /\ raised = NoExc
     /\ ctx.error
     /\ NormalErrorRecorded

C2_Witness ==
  /\ Done
  /\ NormalRaised
  /\ Len(steps[ERROR]) = 1
  /\ ended[ERROR].status = "returned"
  /\ Executed(ERROR, 1)
  /\ outcome = "returned"
  /\ ctx.errs[NORMAL].step = "step_with_retries"

\* ------------------------------------------------------------------ C3
\* C3: the normal scope raises and neither an error nor an exit step is
\* registered: run raises that same failure, error = true, normal_error
\* names the failing step, and no later normal step was executed.
C3_FatalReraise ==
  (/\ Done
   /\ NormalRaised
   /\ Len(steps[ERROR]) = 0
   /\ Len(steps[EXIT]) = 0)
  => /\ outcome = "raised"
     /\ raised = ended[NORMAL].exc
     /\ ctx.error
     /\ NormalErrorRecorded
     /\ \A k \in 1..Len(log) :
          log[k].scope = NORMAL /\ log[k].idx <= ended[NORMAL].idx

C3_Witness ==
  /\ Done
  /\ NormalRaised
  /\ Len(steps[ERROR]) = 0
  /\ Len(steps[EXIT]) = 0
  /\ ended[NORMAL].idx < Len(steps[NORMAL])
  /\ outcome = "raised"
  /\ raised.kind = "ValueError"

\* ------------------------------------------------------------------ C4
\* the registered steps that can run without a failure of the normal scope,
\* fallbacks included, have pairwise distinct names
DistinctNames ==
  LET reg == steps[NORMAL] \o steps[EXIT]
      fbs == {k \in 1..Len(steps[NORMAL]) : steps[NORMAL][k].err_step # NoStep}
  IN /\ \A a, b \in 1..Len(reg) : a # b => reg[a].name # reg[b].name
     /\ \A k \in fbs : \A a \in 1..Len(reg) :
          steps[NORMAL][k].err_step[1].name # reg[a].name

NoFailure ==
  /\ \A k \in 1..Len(log) : log[k].ok
  /\ \A sc \in Scope : ctx.errs[sc] = NoErr

\* C4: normal steps with distinct names, no step fails, nobody cancels:
\* after run every step was invoked once, the context holds each step's
\* return value under its name, and error is false.
C4_AllResultsRecorded ==
  (/\ Done
   /\ DistinctNames
   /\ NoFailure
   /\ ~ctx.cancel)
  => /\ outcome = "returned"
     /\ ~ctx.error
     /\ \A ix \in 1..Len(steps[NORMAL]) :
          /\ Cardinality(Entries(NORMAL, ix)) = 1
          /\ \A k \in Entries(NORMAL, ix) :
               /\ log[k].func = steps[NORMAL][ix].func
               /\ ctx.vals[steps[NORMAL][ix].name] = Returned(k)

C4_Witness ==
  /\ Done
  /\ DistinctNames
  /\ NoFailure
  /\ ~ctx.cancel
  /\ Len(steps[NORMAL]) = 3
  /\ ctx.vals["step_a"] = <<"hello_world b">>
  /\ ctx.vals["step_with_multi_param"] = <<"hello_world b", "world">>

\* ------------------------------------------------------------------ C5
\* the function _run_step is about to invoke
CurFunc ==
  IF inErr THEN steps[scope][idx].err_step[1].func ELSE steps[scope][idx].func

\* C5: a callable declaring ctx is passed exactly one argument, the live
\* context (what it does to it is visible afterwards); any other callable is
\* passed the current context values of its parameter names, in declaration
\* order.
C5_ArgumentBinding ==
  /\ pc = "call" =>
       LET p == Params(CurFunc) IN
       IF \E k \in 1..Len(p) : p[k] = "ctx"
       THEN args = <<CtxRef>>
       ELSE /\ Len(args) = Len(p)
            /\ \A k \in 1..Len(p) :
                 args[k] = ctx.vals[p[k]] /\ args[k] # Absent
  /\ \A k \in 1..Len(log) :
       /\ log[k].func = "step_cancel" => ctx.cancel
       /\ log[k].func = "step_with_multi_param" =>
            Returned(k) = log[k].args[1] \o log[k].args[2]

C5_Witness ==
  /\ pc = "call"
  /\ CurFunc = "step_with_multi_param"
  /\ args = << <<"hello_world b">>, <<"world">> >>

\* ------------------------------------------------------------------ C6
\* C6: an entry recorded under a step's name stays as recorded until a later
\* result is recorded under the same name: at every point of the run the
\* context holds, under every name, the last result recorded under it, and
\* a step about to be invoked has been bound to these values.
C6_ResultsPersist ==
  /\ \A nm \in FuncNames :
       LastOk(nm) # 0 => ctx.vals[nm] = Returned(LastOk(nm))
  /\ pc = "call" =>
       LET p == Params(CurFunc) IN
       \A k \in 1..Len(p) :
         (p[k] # "ctx" /\ LastOk(p[k]) # 0) => args[k] = Returned(LastOk(p[k]))

C6_Witness ==
  /\ Done
  /\ NormalRaised
  /\ LastOk("step_a") # 0
  /\ log[LastOk("step_a")].scope = NORMAL
  /\ Executed(EXIT, 1)
  /\ ctx.vals["step_a"] = <<"hello_world b">>

\* ------------------------------------------------------------------ C7

\* the runner is no longer executing step ix of scope sc
Finished(sc, ix) ==
  Executed(sc, ix) /\ ~(pc = "call" /\ scope = sc /\ idx = ix)

\* C7: a step without fallback registered with retries = N: its function is
\* invoked again after every failure while attempts remain and never after
\* a success, so k <= N failures followed by a success make k+1 invocations
\* and the success result is recorded under the step's name; N+1 failures
\* make N+1 invocations and the last failure reaches the scope runner.
C7_Retries ==
  /\ \A sc \in Scope : \A ix \in 1..Len(steps[sc]) :
       (steps[sc][ix].err_step = NoStep /\ Executed(sc, ix)) =>
         LET E == Entries(sc, ix)
             N == steps[sc][ix].retries
             last == Max(E)
         IN /\ \A k \in E : log[k].i = k - Min(E) /\ log[k].i <= N
            /\ \A k \in E : log[k].ok => k = last
            /\ Finished(sc, ix) =>
                 \/ log[last].ok
                 \/ /\ Cardinality(E) = N + 1
                    /\ IF steps[sc][ix].cont_on_err
                       THEN (Len(log) = last /\ pc = "run_steps"
                             /\ scope = sc /\ idx = ix + 1)
                            => ctx.errs[sc] =
                                 [step |-> steps[sc][ix].name,
                                  error |-> ValueError(last)]
                       ELSE ended[sc] = [status |-> "raised",
                                         exc |-> ValueError(last),
                                         idx |-> ix]
  /\ (Len(log) > 0 /\ log[Len(log)].ok) =>
       ctx.vals[log[Len(log)].name] = Returned(Len(log))

C7_Witness ==
  /\ Done
  /\ \E ix \in 1..Len(steps[NORMAL]) :
       /\ steps[NORMAL][ix].err_step = NoStep
       /\ steps[NORMAL][ix].retries = MaxRetries
       /\ Cardinality(Entries(NORMAL, ix)) = MaxRetries + 1
       /\ log[Max(Entries(NORMAL, ix))].ok
       /\ ctx.vals[steps[NORMAL][ix].name] = <<"3">>

\* ------------------------------------------------------------------ C8
\* the fallback of normal step ix returned in invocation k
FallbackOk(ix, k) ==
  /\ steps[NORMAL][ix].err_step # NoStep
  /\ steps[NORMAL][ix].err_step[1].name # steps[NORMAL][ix].name
  /\ k \in Entries(NORMAL, ix)
  /\ log[k].fb
  /\ log[k].ok

\* C8: a step with a fallback of another name fails and the fallback
\* succeeds: the fallback's result is recorded under the fallback's name,
\* nothing is recorded under the step's name, and the scope stops there
\* unless cont_on_err is set on the step, in which case the runner goes on
\* to the next step.
C8_Fallback ==
  \A ix \in 1..Len(steps[NORMAL]) : \A k \in 1..Len(log) :
    FallbackOk(ix, k) =>
      LET step == steps[NORMAL][ix] IN
      /\ log[k].name = step.err_step[1].name
      /\ Len(log) = k => ctx.vals[step.err_step[1].name] = Returned(k)
      /\ \A j \in Entries(NORMAL, ix) : ~log[j].fb => ~log[j].ok
      /\ LastOk(step.name) = 0 => ctx.vals[step.name] = Absent
      /\ IF ~step.cont_on_err
         THEN /\ ended[NORMAL] = [status |-> "returned", exc |-> NoExc,
                                  idx |-> ix]
              /\ \A j \in 1..Len(log) :
                   log[j].scope = NORMAL => log[j].idx <= ix
         ELSE /\ Len(log) = k =>
                   \/ pc # "done" /\ scope = NORMAL /\ idx = ix + 1
                   \/ ended[NORMAL].idx = ix + 1
              /\ (Done /\ ix < Len(steps[NORMAL]) /\ ~ctx.cancel) =>
                   \/ Executed(NORMAL, ix + 1)
                   \/ ctx.errs[NORMAL].error.kind = "KeyError"

C8_Witness ==
  /\ Done
  /\ ~ctx.cancel
  /\ Len(steps[NORMAL]) >= 2
  /\ ~steps[NORMAL][1].cont_on_err
  /\ \E k \in 1..Len(log) : FallbackOk(1, k)
  /\ ctx.vals["step_b"] = <<"hello_world">>
  /\ ~Executed(NORMAL, 2)

C8_WitnessCont ==
  /\ Done
  /\ Len(steps[NORMAL]) >= 2
  /\ steps[NORMAL][1].cont_on_err
  /\ \E k \in 1..Len(log) : FallbackOk(1, k)
  /\ Executed(NORMAL, 2)

\* ------------------------------------------------------------------ C9
\* C9 as stated: with an exit step registered, the first exit step is
\* executed before run returns or raises, whatever happened before (here:
\* also when a step has set the cancel flag; the caller never cancels).
C9_ExitStepAlwaysRuns ==
  (Done /\ Len(steps[EXIT]) > 0 /\ ~called) => Executed(EXIT, 1)

\* ------------------------------------------------------------------ C10
\* C10: a step that sets the cancel flag completes and its result is
\* recorded; no later step of its scope is executed; the scope does not
\* raise (in the normal scope error stays false); the results recorded
\* before are still in the context.
C10_CancelHaltsScope ==
  \A k \in 1..Len(log) :
    log[k].func = "step_cancel" =>
      /\ log[k].ok
      /\ ctx.cancel
      /\ ctx.vals[log[k].name] = None
      /\ \A j \in 1..Len(log) :
           log[j].scope = log[k].scope => log[j].idx <= log[k].idx
      /\ ended[log[k].scope].status # "raised"
      /\ log[k].scope = NORMAL => ~ctx.error
      /\ \A j \in 1..k :
           log[j].ok =>
             LET l == LastOk(log[j].name) IN
             /\ ctx.vals[log[j].name] = Returned(l)
             /\ l > k => log[l].scope # log[k].scope

C10_Witness ==
  /\ Done
  /\ ~called
  /\ Len(steps[NORMAL]) = 3
  /\ \E k \in Entries(NORMAL, 2) : log[k].func = "step_cancel"
  /\ ctx.vals["step_a"] = <<"hello_world b">>
  /\ log[LastOk("step_a")].idx = 1
  /\ ~Executed(NORMAL, 3)
  /\ outcome = "returned"

\* ------------------------------------------------------------------ C14
\* C14: if the exit scope raises, run raises the exit scope's failure,
\* whatever failure of the normal or error scope was in flight; if the
\* error scope raises and the exit scope does not, the exit scope has
\* nevertheless been run and run raises the error scope's failure.
C14_LastFailureWins ==
  /\ (Done /\ ended[EXIT].status = "raised")
       => (outcome = "raised" /\ raised = ended[EXIT].exc)
  /\ (Done /\ ended[ERROR].status = "raised"
            /\ ended[EXIT].status # "raised")
       => /\ ended[EXIT].status = "returned"
          /\ outcome = "raised"
          /\ raised = ended[ERROR].exc
  /\ (~Done /\ ended[ERROR].status = "raised")
       => (scope = EXIT /\ pending = ended[ERROR].exc)

\* the exit scope raises while the normal scope's failure is in flight
C14_Witness ==
  /\ Done
  /\ Len(steps[ERROR]) = 1
  /\ ended[NORMAL].status = "raised"
  /\ ended[ERROR].status = "raised"
  /\ ended[EXIT].status = "raised"
  /\ ended[EXIT].exc # ended[ERROR].exc
  /\ raised = ended[EXIT].exc

\* only the error scope raises; the exit step runs before run raises
C14_WitnessError ==
  /\ Done
  /\ ended[ERROR].status = "raised"
  /\ ended[EXIT].status = "returned"
  /\ ExitStepOk
  /\ raised = ended[ERROR].exc

\* ------------------------------------------------------------------ C15
\* the invocations of the step's own function / of its fallback's function
\* made while executing step ix of scope sc
OwnEntries(sc, ix) == {k \in Entries(sc, ix) : ~log[k].fb}
FbEntries(sc, ix)  == {k \in Entries(sc, ix) : log[k].fb}

\* C15: a step with an attached err_step: its function is invoked once; if
\* that attempt fails the very next thing the executor invokes is the
\* fallback, whatever retries the step has; the fallback is executed once,
\* with its own attempt loop (attempts 0..retries of the fallback, stopping
\* at the first success), and its outcome is what the scope runner gets: a
\* result recorded under the fallback's name, or the fallback's last
\* failure.
C15_FallbackImmediate ==
  \A sc \in Scope : \A ix \in 1..Len(steps[sc]) :
    (steps[sc][ix].err_step # NoStep /\ Executed(sc, ix)) =>
      LET step == steps[sc][ix]
          fb   == step.err_step[1]
          own  == OwnEntries(sc, ix)
          F    == FbEntries(sc, ix)
      IN /\ Cardinality(own) = 1
         /\ \A k \in own :
              /\ log[k].i = 0
              /\ log[k].func = step.func
              /\ log[k].ok => F = {}
              /\ (~log[k].ok /\ Len(log) = k) =>
                   \/ pc = "call" /\ scope = sc /\ idx = ix /\ inErr /\ i = 0
                   \/ ctx.errs[sc] = [step |-> step.name, error |-> KeyError]
              /\ \A j \in F : j > k /\ log[j].i = j - (k + 1)
         /\ \A j \in F :
              /\ log[j].func = fb.func
              /\ log[j].i <= fb.retries
              /\ log[j].ok => j = Max(F)
         /\ (F # {} /\ Finished(sc, ix)) =>
              LET last == Max(F) IN
              \/ /\ log[last].ok
                 /\ Len(log) = last => ctx.vals[fb.name] = Returned(last)
              \/ /\ ~log[last].ok
                 /\ Cardinality(F) = fb.retries + 1
                 /\ step.cont_on_err
                    \/ ended[sc] = [status |-> "raised",
                                     exc |-> ValueError(last), idx |-> ix]

\* a step with retries left fails once and its fallback returns
C15_Witness ==
  /\ Done
  /\ Len(steps[NORMAL]) >= 1
  /\ steps[NORMAL][1].err_step # NoStep
  /\ steps[NORMAL][1].retries = MaxRetries
  /\ Cardinality(OwnEntries(NORMAL, 1)) = 1
  /\ \E k \in FbEntries(NORMAL, 1) : log[k].ok /\ log[k].func = "step_b"
  /\ ctx.vals["step_b"] = <<"hello_world">>

\* the fallback uses its own retries: it fails once and then returns
C15_WitnessFbRetry ==
  /\ Done
  /\ Len(steps[NORMAL]) >= 1
  /\ steps[NORMAL][1].err_step # NoStep
  /\ Cardinality(FbEntries(NORMAL, 1)) = MaxRetries + 1
  /\ log[Max(FbEntries(NORMAL, 1))].ok

\* ------------------------------------------------------------------ C16
\* C16 as stated: the fallback of a step registered with retries = N is
\* invoked only after the step's own function has failed on N+1
\* invocations in that step execution.
C16_FallbackAfterRetries ==
  \A sc \in Scope : \A ix \in 1..Len(steps[sc]) :
    FbEntries(sc, ix) # {} =>
      Cardinality({k \in OwnEntries(sc, ix) :
                     ~log[k].ok /\ k < Min(FbEntries(sc, ix))})
        = steps[sc][ix].retries + 1

\* ------------------------------------------------------------------ C17
\* the execution of step ix of scope sc is over and its last invocation
\* (of the step's function or of its fallback's) failed
RaisedOut(sc, ix) ==
  /\ Finished(sc, ix)
  /\ ~log[Max(Entries(sc, ix))].ok

\* C17: when the execution of a step raises out of the step executor, the
\* scope runner writes <scope>_error = {step: registered name, error: the
\* failure}; with cont_on_err false the scope raises that failure and no
\* later step of the scope is executed; with cont_on_err true the runner
\* moves to the next step (executed unless the cancel flag is set or its
\* arguments do not bind) and the scope does not raise this failure.
C17_ErrorRecord ==
  /\ \A sc \in Scope : \A ix \in 1..Len(steps[sc]) :
       (Executed(sc, ix) /\ RaisedOut(sc, ix)) =>
         LET step == steps[sc][ix]
             last == Max(Entries(sc, ix))
             rec  == [step |-> step.name, error |-> ValueError(last)]
         IN IF ~step.cont_on_err
            THEN /\ ctx.errs[sc] = rec
                 /\ ended[sc] = [status |-> "raised",
                                  exc |-> ValueError(last), idx |-> ix]
                 /\ \A j \in 1..Len(log) :
                      log[j].scope = sc => log[j].idx <= ix
            ELSE /\ Len(log) = last =>
                      /\ \/ ctx.errs[sc] = rec
                         \/ ctx.errs[sc] = [step |-> steps[sc][ix + 1].name,
                                             error |-> KeyError]
                      /\ \/ pc # "done" /\ scope = sc /\ idx = ix + 1
                         \/ ended[sc].idx = ix + 1
                 /\ ended[sc].exc # ValueError(last)
                 /\ (Done /\ ix < Len(steps[sc]) /\ ~ctx.cancel) =>
                      \/ Executed(sc, ix + 1)
                      \/ ctx.errs[sc].error = KeyError
  /\ \A sc \in Scope :
       /\ ctx.errs[sc] # NoErr =>
            \E ix \in 1..Len(steps[sc]) : ctx.errs[sc].step = steps[sc][ix].name
       /\ ended[sc].status = "raised" =>
            /\ ended[sc].idx \in 1..Len(steps[sc])
            /\ ~steps[sc][ended[sc].idx].cont_on_err
            /\ ctx.errs[sc] = [step |-> steps[sc][ended[sc].idx].name,
                                error |-> ended[sc].exc]

\* cont_on_err: the failure is recorded and the next step is executed
C17_Witness ==
  /\ Done
  /\ Len(steps[NORMAL]) >= 2
  /\ steps[NORMAL][1].cont_on_err
  /\ RaisedOut(NORMAL, 1)
  /\ ctx.errs[NORMAL] = [step |-> "step_with_retries", error |-> ValueError(1)]
  /\ Executed(NORMAL, 2)
  /\ ended[NORMAL].status = "returned"
  /\ outcome = "returned"

\* the fallback itself failed: the record names the registered step
C17_WitnessFallback ==
  /\ Done
  /\ Len(steps[NORMAL]) >= 2
  /\ FbEntries(NORMAL, 1) # {}
  /\ RaisedOut(NORMAL, 1)
  /\ ~Executed(NORMAL, 2)
  /\ ended[NORMAL].status = "raised"

\* ------------------------------------------------------------------ C18
\* normal, error, exit: the order of the phases
Rank(sc) == IF sc = NORMAL THEN 1 ELSE IF sc = ERROR THEN 2 ELSE 3

\* C18: invocations happen in phase order normal, error, exit and, within a
\* scope, in registration order; the runner is in the error scope only
\* after the normal scope raised, and in the exit scope only after the
\* normal scope and (if entered) the error scope are over; the error flag
\* is true exactly when the normal scope raised, so neither a failure
\* absorbed by cont_on_err nor one replaced by a fallback sets it or
\* starts an error step.
C18_PhaseOrder ==
  /\ \A j, k \in 1..Len(log) :
       j < k => /\ Rank(log[j].scope) <= Rank(log[k].scope)
                /\ log[j].scope = log[k].scope => log[j].idx <= log[k].idx
  /\ \A k \in 1..Len(log) :
       log[k].func = IF log[k].fb
                     THEN steps[log[k].scope][log[k].idx].err_step[1].func
                     ELSE steps[log[k].scope][log[k].idx].func
  /\ (pc \in {"run_steps", "call"} /\ scope = NORMAL) =>
       \A sc \in Scope : ended[sc].status = "no"
  /\ (pc \in {"run_steps", "call"} /\ scope = ERROR) =>
       /\ ended[NORMAL].status = "raised"
       /\ ended[ERROR].status = "no"
       /\ ended[EXIT].status = "no"
  /\ (pc \in {"run_steps", "call"} /\ scope = EXIT) =>
       /\ ended[NORMAL].status # "no"
       /\ ended[EXIT].status = "no"
       /\ \/ ended[ERROR].status # "no"
          \/ ended[NORMAL].status = "returned"
          \/ Len(steps[ERROR]) = 0 /\ Len(steps[EXIT]) = 0
  /\ (\E ix \in 1..Len(steps[ERROR]) : Executed(ERROR, ix)) =>
       ended[NORMAL].status = "raised"
  /\ ctx.error <=> ended[NORMAL].status = "raised"

\* all three phases execute a step
C18_Witness ==
  /\ Done
  /\ Executed(NORMAL, 1)
  /\ Executed(ERROR, 1)
  /\ Executed(EXIT, 1)
  /\ ctx.error

\* a failure absorbed by cont_on_err: no error step, error stays false
C18_WitnessAbsorbed ==
  /\ Done
  /\ Len(steps[NORMAL]) = 1
  /\ RaisedOut(NORMAL, 1)
  /\ steps[NORMAL][1].cont_on_err
  /\ Len(steps[ERROR]) = 1
  /\ ~Executed(ERROR, 1)
  /\ Executed(EXIT, 1)
  /\ ~ctx.error

\* ------------------------------------------------------------------ C13
\* the step (registered step or fallback) invocation k belongs to
StepOf(k) ==
  IF log[k].fb THEN steps[log[k].scope][log[k].idx].err_step[1]
  ELSE steps[log[k].scope][log[k].idx]

\* the timeout of st is shorter than its asynchronous function takes
TooShort(st) ==
  /\ iscoroutinefunction(st.func)
  /\ st.timeout # NoTimeout
  /\ st.timeout[1] < Duration(st.func)

\* C13: an attempt of an asynchronous step whose timeout is shorter than
\* the function takes fails; the failure is a timeout failure and is
\* handled like any other: the step is attempted again while attempts
\* remain, or replaced by its fallback at once, and after retries+1 timed
\* out attempts without fallback the scope raises the timeout failure of
\* the last attempt.  An asynchronous step with no timeout or a longer one,
\* and a synchronous step with any timeout, return and their result is
\* recorded.
C13_Timeout ==
  /\ \A k \in 1..Len(log) :
       /\ log[k].ok <=> ~TooShort(StepOf(k))
       /\ (log[k].ok /\ Len(log) = k) =>
            ctx.vals[log[k].name] = Returned(k)
  /\ \A ix \in 1..Len(steps[NORMAL]) :
       (Executed(NORMAL, ix) /\ TooShort(steps[NORMAL][ix])) =>
         LET step == steps[NORMAL][ix]
             E == OwnEntries(NORMAL, ix)
         IN /\ \A k \in E : log[k].i = k - Min(E)
            /\ IF step.err_step # NoStep
               THEN /\ Cardinality(E) = 1
                    /\ Finished(NORMAL, ix) =>
                         /\ FbEntries(NORMAL, ix) = {Max(E) + 1}
                         /\ ctx.vals[step.err_step[1].name]
                              = Returned(Max(E) + 1)
               ELSE /\ Cardinality(E) <= step.retries + 1
                    /\ Finished(NORMAL, ix) =>
                         /\ Cardinality(E) = step.retries + 1
                         /\ ended[NORMAL] =
                              [status |-> "raised",
                               exc |-> TimeoutError(Max(E)), idx |-> ix]
                         /\ ctx.errs[NORMAL] =
                              [step |-> step.name,
                               error |-> TimeoutError(Max(E))]
                         /\ Done => raised = TimeoutError(Max(E))
  /\ \A sc \in Scope :
       ctx.errs[sc].error.kind = "TimeoutError" =>
         /\ ~log[ctx.errs[sc].error.n].ok
         /\ TooShort(StepOf(ctx.errs[sc].error.n))

\* a step with a short timeout and retries times out on every attempt
\* and run raises the timeout failure
C13_Witness ==
  /\ Done
  /\ Len(steps[NORMAL]) >= 1
  /\ steps[NORMAL][1].func = "step_with_timeout"
  /\ steps[NORMAL][1].timeout = <<1>>
  /\ steps[NORMAL][1].retries = MaxRetries
  /\ Cardinality(Entries(NORMAL, 1)) = MaxRetries + 1
  /\ outcome = "raised"
  /\ raised = TimeoutError(MaxRetries + 1)

\* sufficient timeout on the asynchronous step, short one on a synchronous
C13_WitnessOk ==
  /\ Done
  /\ Len(steps[NORMAL]) = 2
  /\ steps[NORMAL][1].func = "step_with_timeout"
  /\ steps[NORMAL][1].timeout = <<5>>
  /\ steps[NORMAL][2].func = "step_a"
  /\ steps[NORMAL][2].timeout = <<1>>
  /\ ctx.vals["step_with_timeout"] = <<"hello_world">>
  /\ ctx.vals["step_a"] = <<"hello_world b">>
  /\ outcome = "returned"

\* the timed out step is replaced by its fallback
C13_WitnessFallback ==
  /\ Done
  /\ Len(steps[NORMAL]) >= 1
  /\ TooShort(steps[NORMAL][1])
  /\ FbEntries(NORMAL, 1) # {}
  /\ ctx.vals["step_b"] = <<"hello_world">>
  /\ outcome = "returned"

\* ------------------------------------------------------------------ C11
\* step ix of scope sc is a conditional step
IsCond(sc, ix) == steps[sc][ix].func = "cond_step"

\* the runner is inside the execution of step ix of scope sc
Inside(sc, ix) ==
  pc \in {"call", "cond", "dispatch", "gather"} /\ scope = sc /\ idx = ix

\* C11: a conditional step reads the value stored under the name of the
\* step registered just before it in its scope when it is executed; a
\* truthy value selects the true branch, a falsy or absent one the false
\* branch; every callable it invokes is of the selected branch, all of
\* them are invoked when none fails, and the context entries are those
\* written by the invocations that took place, so that the conditional
\* step writes no name of the unselected branch.
C11_CondBranch ==
  /\ \A sc \in Scope : \A ix \in 1..Len(steps[sc]) :
       IsCond(sc, ix) =>
         LET env == steps[sc][ix].env
             E == Entries(sc, ix)
         IN /\ ix > 1
            /\ env.prev = steps[sc][ix - 1].name
            /\ (pc = "cond" /\ scope = sc /\ idx = ix) =>
                 /\ next_steps \in {env.on_true, env.on_false}
                 /\ bi = 1 => next_steps =
                      IF ctx.vals[env.prev] \in {Absent, None, <<"False">>}
                      THEN env.on_false ELSE env.on_true
                 /\ \A k \in E : log[k].func = next_steps[log[k].br]
            /\ \E ns \in {env.on_true, env.on_false} :
                 /\ \A k \in E : /\ log[k].br \in 1..Len(ns)
                                  /\ log[k].func = ns[log[k].br]
                 /\ (E # {} /\ ~Inside(sc, ix) /\ \A k \in E : log[k].ok) =>
                      {log[k].br : k \in E} = 1..Len(ns)
  /\ \A nm \in FuncNames :
       ctx.vals[nm] = IF LastOk(nm) = 0 THEN Absent ELSE Returned(LastOk(nm))

\* a falsy result: the false branch runs, the true branch does not
C11_Witness ==
  /\ Done
  /\ Len(steps[NORMAL]) = 2
  /\ steps[NORMAL][1].func = "step_return_false"
  /\ IsCond(NORMAL, 2)
  /\ steps[NORMAL][2].env.on_true = <<"step_return_true">>
  /\ Cardinality(Entries(NORMAL, 2)) = 2
  /\ ctx.vals["step_b"] = <<"hello_world">>
  /\ ctx.vals["step_a"] = <<"hello_world b">>
  /\ ctx.vals["step_return_true"] = Absent
  /\ ctx.vals["cond_step"] = None

\* a truthy result: the true branch runs to its end
C11_WitnessTrue ==
  /\ Done
  /\ Len(steps[NORMAL]) = 2
  /\ steps[NORMAL][1].func = "step_return_true"
  /\ IsCond(NORMAL, 2)
  /\ Cardinality(Entries(NORMAL, 2)) = 3
  /\ ctx.vals["step_b"] = <<"hello_world">>
  /\ ctx.vals["step_return_false"] = Absent

\* no entry under the previous step's name: the false branch runs; and a
\* conditional step of the exit scope reads the exit scope's previous step
C11_WitnessAbsent ==
  /\ Done
  /\ Len(steps[NORMAL]) = 2
  /\ steps[NORMAL][1].func = "step_with_retries"
  /\ ctx.vals["step_with_retries"] = Absent
  /\ IsCond(NORMAL, 2)
  /\ steps[NORMAL][2].env.on_true = <<"step_return_true">>
  /\ Cardinality(Entries(NORMAL, 2)) = 2

C11_WitnessExit ==
  /\ Done
  /\ Len(steps[NORMAL]) = 1
  /\ steps[NORMAL][1].func = "step_return_true"
  /\ ctx.vals["step_return_true"] = <<"True">>
  /\ Len(steps[EXIT]) = 2
  /\ IsCond(EXIT, 2)
  /\ steps[EXIT][2].env.on_false = <<"step_b", "step_a">>
  /\ Cardinality(Entries(EXIT, 2)) = 2

\* ------------------------------------------------------------------ C19
\* C19: the branch steps of a conditional step are invoked in list order,
\* one after the other; the result of each is in the context under its
\* name as soon as it has returned, before the next one is invoked; when
\* one fails no later branch step is invoked, the results of the earlier
\* ones are in the context, and the scope records and raises the failure
\* as that of the conditional step.
C19_CondSequence ==
  \A sc \in Scope : \A ix \in 1..Len(steps[sc]) :
    IsCond(sc, ix) =>
      LET E == Entries(sc, ix) IN
      \A k \in E :
        /\ log[k].br = k - Min(E) + 1
        /\ log[k].br > 1 => log[k - 1].ok
        /\ (log[k].ok /\ Len(log) = k) =>
             ctx.vals[log[k].name] = Returned(k)
        /\ ~log[k].ok =>
             /\ k = Max(E)
             /\ \A j \in E : j < k =>
                  /\ ctx.vals[log[j].name] # Absent
                  /\ Len(log) = k => ctx.vals[log[j].name] = Returned(j)
             /\ ctx.errs[sc] = [step |-> steps[sc][ix].name,
                                 error |-> ValueError(k)]
             /\ ended[sc] = [status |-> "raised", exc |-> ValueError(k),
                              idx |-> ix]

\* the second of three branch steps fails
C19_Witness ==
  /\ Done
  /\ Len(steps[NORMAL]) = 2
  /\ IsCond(NORMAL, 2)
  /\ Cardinality(Entries(NORMAL, 2)) = 2
  /\ log[Max(Entries(NORMAL, 2))].func = "step_with_retries"
  /\ ~log[Max(Entries(NORMAL, 2))].ok
  /\ ctx.vals["step_a"] = <<"hello_world b">>
  /\ ctx.vals["step_b"] = Absent
  /\ ctx.vals["cond_step"] = Absent
  /\ ctx.errs[NORMAL].step = "cond_step"
  /\ outcome = "raised"

\* between two branch steps: the first result is already in the context
C19_WitnessBetween ==
  /\ pc = "cond"
  /\ bi = 2
  /\ next_steps = <<"step_b", "step_a">>
  /\ ctx.vals["step_b"] = <<"hello_world">>
  /\ ctx.vals["step_a"] = Absent

\* ------------------------------------------------------------------ C12
\* step ix of scope sc is a parallel step
IsPar(sc, ix) == steps[sc][ix].func = "parallel_step"

\* the tasks attempt a of step ix of scope sc dispatched
Gen(sc, ix, a) ==
  {t \in 1..Len(tasks) :
     tasks[t].scope = sc /\ tasks[t].idx = ix /\ tasks[t].att = a}

\* attempt a of parallel step ix is still dispatching its callables
Dispatching(sc, ix, a) ==
  pc = "dispatch" /\ scope = sc /\ idx = ix /\ i = a

\* the invocation in which task t completed, 0 while it is running
EntryOf(t) ==
  LET S == {k \in 1..Len(log) : "task" \in DOMAIN log[k] /\ log[k].task = t}
  IN IF S = {} THEN 0 ELSE Min(S)

\* C12: when every branch of an attempt of a parallel step over [f1..fk]
\* has returned, in whatever order, the step records under its name the
\* list of the k results, the i-th being the result of fi.
C12_ParallelOrder ==
  \A sc \in Scope : \A ix \in 1..Len(steps[sc]) :
    IsPar(sc, ix) =>
      \A a \in 0..steps[sc][ix].retries :
        LET G == Gen(sc, ix, a)
            fs == steps[sc][ix].env.steps
        IN (/\ G # {}
            /\ \A t \in G : tasks[t].state = "done"
            /\ ~Dispatching(sc, ix, a)) =>
             /\ Cardinality(G) = Len(fs)
             /\ \A t \in G : tasks[t].func = fs[t - Min(G) + 1]
             /\ Len(log) = Max({EntryOf(t) : t \in G}) =>
                  /\ ~Inside(sc, ix)
                  /\ Len(ctx.vals[steps[sc][ix].name]) = Len(fs)
                  /\ \A u \in 1..Len(fs) :
                       <<ctx.vals[steps[sc][ix].name][u]>>
                         = Returned(EntryOf(Min(G) + u - 1))

\* the second branch completes before the first
C12_Witness ==
  /\ Done
  /\ Len(steps[NORMAL]) = 1
  /\ IsPar(NORMAL, 1)
  /\ Len(tasks) = 2
  /\ tasks[1].func = "step_a"
  /\ tasks[2].func = "step_b"
  /\ EntryOf(2) # 0
  /\ EntryOf(2) < EntryOf(1)
  /\ ctx.vals["parallel_steps"] = <<"hello_world b", "hello_world">>
  /\ outcome = "returned"

\* ------------------------------------------------------------------ C20
\* the invocations in which a branch of attempt a failed
Failed(sc, ix, a) ==
  {EntryOf(t) : t \in {u \in Gen(sc, ix, a) : tasks[u].state = "failed"}}

\* C20: when a branch of a parallel step raises while the step awaits it,
\* that attempt of the step fails with the branch's failure: with attempts
\* left the step is attempted again, otherwise the scope records and
\* raises the failure; a result list is under the step's name only if
\* every branch of some attempt returned.  No dispatched branch is ever
\* cancelled: each is running until it has returned or raised, whatever
\* the engine does meanwhile.
C20_ParallelFailure ==
  /\ \A t \in 1..Len(tasks) :
       /\ tasks[t].state \in {"running", "done", "failed"}
       /\ tasks[t].state = "running" <=> EntryOf(t) = 0
       /\ tasks[t].state = "done" => log[EntryOf(t)].ok
       /\ tasks[t].state = "failed" => ~log[EntryOf(t)].ok
  /\ \A sc \in Scope : \A ix \in 1..Len(steps[sc]) :
       IsPar(sc, ix) =>
         \A a \in 0..steps[sc][ix].retries :
           (Failed(sc, ix, a) # {} /\ ~Dispatching(sc, ix, a)) =>
             LET kf == Min(Failed(sc, ix, a)) IN
             IF a = steps[sc][ix].retries
             THEN /\ ctx.errs[sc] = [step |-> steps[sc][ix].name,
                                      error |-> ValueError(kf)]
                  /\ ended[sc] = [status |-> "raised",
                                   exc |-> ValueError(kf), idx |-> ix]
             ELSE \/ Gen(sc, ix, a + 1) # {}
                  \/ /\ pc \in {"call", "dispatch"}
                     /\ scope = sc /\ idx = ix /\ i = a + 1
  /\ ctx.vals["parallel_steps"] # Absent =>
       \E sc \in Scope : \E ix \in 1..Len(steps[sc]) :
         /\ IsPar(sc, ix)
         /\ \E a \in 0..steps[sc][ix].retries :
              /\ Gen(sc, ix, a) # {}
              /\ \A t \in Gen(sc, ix, a) : tasks[t].state = "done"

\* a branch of the failed step returns after the exit step has run
C20_Witness ==
  /\ Done
  /\ Len(steps[NORMAL]) = 1
  /\ IsPar(NORMAL, 1)
  /\ steps[NORMAL][1].retries = 0
  /\ Len(tasks) = 2
  /\ tasks[2].state = "failed"
  /\ tasks[1].state = "done"
  /\ ctx.vals["parallel_steps"] = Absent
  /\ \E k \in Entries(EXIT, 1) : EntryOf(2) < k /\ k < EntryOf(1)

\* a branch of the failed attempt returns after a branch of the retry
C20_WitnessRetry ==
  /\ Len(steps[NORMAL]) = 1
  /\ IsPar(NORMAL, 1)
  /\ Len(tasks) = 4
  /\ tasks[1].state = "failed"
  /\ tasks[2].state = "done"
  /\ EntryOf(3) # 0
  /\ EntryOf(3) < EntryOf(2)

\* ------------------------------------------------------------------ C21
\* two tasks dispatched by the same attempt of the same parallel step
Siblings(t, u) ==
  /\ tasks[t].scope = tasks[u].scope
  /\ tasks[t].idx = tasks[u].idx
  /\ tasks[t].att = tasks[u].att

\* C21 (as stated): the arguments of all branches of a parallel step are
\* resolved from one snapshot of the context, so two branches of the same
\* fan-out that are bound to the same context key are passed the same
\* value, whatever a sibling branch has done to the context meanwhile.
C21_SameSnapshot ==
  \A t \in 1..Len(tasks) : \A u \in 1..Len(tasks) :
    (Siblings(t, u) /\ tasks[t].args # <<CtxRef>>
                    /\ tasks[u].args # <<CtxRef>>) =>
      \A j \in 1..Len(tasks[t].args) : \A k \in 1..Len(tasks[u].args) :
        Params(tasks[t].func)[j] = Params(tasks[u].func)[k] =>
          tasks[t].args[j] = tasks[u].args[k]

\* ------------------------------------------------------------------ C22
\* the dispatched branches that are executing with the live context
Holders ==
  {t \in 1..Len(tasks) :
     tasks[t].state = "running" /\ tasks[t].args = <<CtxRef>>}

\* C22 (as stated): at no point do two caller-supplied units of work that
\* hold the live context execute at the same time.
C22_NoConcurrentHolders == Cardinality(Holders) <= 1

\* ------------------------------------------------------------------ C23
\* the retry about to be made starts now: the last invocation is the
\* previous attempt of the same step, which has just failed
RetryStarts ==
  /\ pc = "call"
  /\ i > 0
  /\ Len(log) > 0
  /\ LET e == log[Len(log)] IN
       /\ "task" \notin DOMAIN e
       /\ e.scope = scope /\ e.idx = idx /\ e.fb = inErr /\ e.i = i - 1

\* C23 (as stated): the arguments are bound anew for every attempt, so a
\* retry of a step with name-bound parameters is passed the values the
\* context holds when that retry starts.
C23_RebindEveryAttempt ==
  (RetryStarts /\ ~InSeq("ctx", Params(CurFunc))) =>
    \A k \in 1..Len(args) : args[k] = ctx.vals[Params(CurFunc)[k]]

\* ------------------------------------------------------------------ C24
\* C24 (as stated): a missing context value at argument binding is a
\* failure of the step like any other, so when the step has a fallback the
\* fallback is executed in its place and the scope does not end with the
\* lookup failure of that step.
C24_MissingValueHandled ==
  \A sc \in Scope :
    (ended[sc].status = "raised" /\ ended[sc].exc = KeyError) =>
      steps[sc][ended[sc].idx].err_step = NoStep

\* ------------------------------------------------------------------ C25
\* the execution of step ix of scope sc has begun and is over
Over(sc, ix) == Executed(sc, ix) /\ ~Inside(sc, ix)

\* the functions invoked while executing step ix of scope sc, in order
Invoked(sc, ix) ==
  LET E == Entries(sc, ix)
      nth(u) == CHOOSE k \in E : Cardinality({j \in E : j < k}) = u - 1
  IN [u \in 1..Cardinality(E) |-> log[nth(u)].func]

\* a step in flight is carried through whatever the cancel flag is: a
\* plain step makes all its attempts until one succeeds, a failed step
\* with a fallback is replaced by it, a conditional step invokes every
\* step of its branch until one fails, a parallel step dispatches every
\* callable and no dispatched one is stopped
C25_InFlight ==
  /\ \A sc \in Scope : \A ix \in 1..Len(steps[sc]) :
       LET st == steps[sc][ix]
           E == Entries(sc, ix)
       IN /\ (st.func \in FuncNames /\ st.err_step = NoStep /\ Over(sc, ix)
                /\ \A k \in E : ~log[k].ok) =>
                 Cardinality(E) = st.retries + 1
          /\ (st.func \in FuncNames /\ st.err_step # NoStep /\ Over(sc, ix)
                /\ \E k \in OwnEntries(sc, ix) : ~log[k].ok) =>
                 FbEntries(sc, ix) # {}
          /\ (IsCond(sc, ix) /\ Over(sc, ix) /\ \A k \in E : log[k].ok) =>
                 Invoked(sc, ix) \in {st.env.on_true, st.env.on_false}
          /\ (IsPar(sc, ix) /\ Gen(sc, ix, 0) # {}
                /\ ~Dispatching(sc, ix, 0)) =>
                 /\ Cardinality(Gen(sc, ix, 0)) = Len(st.env.steps)
                 /\ Over(sc, ix) =>
                      /\ \A t \in Gen(sc, ix, 0) : tasks[t].state = "done"
                      /\ ctx.vals[st.name] # Absent
  /\ \A t \in 1..Len(tasks) : tasks[t].state \in {"running", "done", "failed"}

\* the runner at a step boundary with the flag set starts no step: it
\* leaves the scope
C25_Boundary ==
  (pc = "run_steps" /\ ctx.cancel) => pc' \in {"run_steps", "done"}

\* C25: the cancel flag is read only by the scope runner between two
\* steps: set while a step is in flight it stops neither that step nor
\* its remaining attempts nor its fallback, neither the remaining steps of
\* the branch of a conditional step nor the branches of a parallel step;
\* the runner starts no further step once it is at a step boundary with
\* the flag set.
C25_CancelAdvisory == []C25_InFlight /\ [][C25_Boundary]_vars

\* a branch step of a conditional step sets the flag: the next branch step
\* is invoked all the same, the step after the conditional step is not
C25_Witness ==
  /\ Done
  /\ Len(steps[NORMAL]) = 3
  /\ IsCond(NORMAL, 2)
  /\ ~called
  /\ Invoked(NORMAL, 2) = <<"step_cancel", "step_a">>
  /\ ctx.vals["step_a"] = <<"hello_world b">>
  /\ ctx.cancel
  /\ ~Executed(NORMAL, 3)

\* the caller cancels after the first attempt of a step failed: the step
\* is attempted again
C25_WitnessRetry ==
  /\ Done
  /\ called
  /\ Len(steps[NORMAL]) = 2
  /\ steps[NORMAL][1].func = "step_with_retries"
  /\ steps[NORMAL][1].err_step = NoStep
  /\ Cardinality(Entries(NORMAL, 1)) = 2
  /\ ~Executed(NORMAL, 2)

\* ------------------------------------------------------------------ C26
\* the steps are executed one after the other, each at most once and each
\* scope at most once: the invocations are in phase order and, within a
\* scope, in registration order, so those of one step are contiguous.
\* The attempts of a step's function are numbered 0..retries, each made at
\* most once, and so are those of its fallback, which follow them.
C26_Bounded ==
  /\ \A j \in 1..Len(log) : \A k \in 1..Len(log) :
       j < k =>
         /\ Rank(log[j].scope) <= Rank(log[k].scope)
         /\ log[j].scope = log[k].scope => log[j].idx <= log[k].idx
         /\ (log[j].scope = log[k].scope /\ log[j].idx = log[k].idx) =>
              /\ log[j].fb => log[k].fb
              /\ log[j].fb = log[k].fb => log[j].i < log[k].i
  /\ \A k \in 1..Len(log) : log[k].i <= StepOf(k).retries
  /\ \A sc \in Scope : \A ix \in 1..Len(steps[sc]) :
       /\ Cardinality(OwnEntries(sc, ix)) <= steps[sc][ix].retries + 1
       /\ steps[sc][ix].err_step # NoStep =>
            Cardinality(FbEntries(sc, ix))
              <= steps[sc][ix].err_step[1].retries + 1
       /\ steps[sc][ix].err_step = NoStep => FbEntries(sc, ix) = {}

\* C26: every invocation returning or raising, a call of run returns or
\* raises; each registered step is executed at most once, with at most
\* retries + 1 invocations of its function and at most one execution of
\* its fallback, and each scope is traversed at most once.
C26_Terminates == []C26_Bounded /\ ((pc # "build") ~> Done)

\* a run that used every attempt of a step and of an error step
C26_Witness ==
  /\ Done
  /\ Len(steps[NORMAL]) = 1
  /\ Len(steps[ERROR]) = 1
  /\ steps[NORMAL][1].retries = MaxRetries
  /\ steps[ERROR][1].retries = MaxRetries
  /\ Cardinality(Entries(NORMAL, 1)) = MaxRetries + 1
  /\ Cardinality(Entries(ERROR, 1)) = MaxRetries + 1
  /\ outcome = "returned"

====
